---- MODULE Spec2Model ----
(***************************************************************************)
(* Model of the elliptic paraboloid wireframe core                         *)
(* (src/surfaces/ellipticParaboloidWireframe/rustsrc).                     *)
(*                                                                         *)
(* Numbers.  A u32 is a pair <<hi, lo>> of 16-bit limbs, because the       *)
(* integers of the model checker are narrower than 2^32; the u32           *)
(* operators return the wrapped value together with the overflow flag.     *)
(* An f32 is a pair <<n, d>>: the rational n/d in lowest terms when d > 0, *)
(* and <<1,0>>, <<-1,0>>, <<0,0>> for +inf, -inf and NaN.  The arithmetic  *)
(* on finite values is exact: rounding and the sign of zero are not        *)
(* modelled.                                                               *)
(***************************************************************************)
EXTENDS Integers, Sequences, FiniteSets, TLC

(***************************************************************************)
(* Bounds of the model.                                                    *)
(***************************************************************************)
\* Largest in-cap grid dimension the host passes.
MaxPts == 3
\* Calls the host makes in one run of Spec.
MaxCalls == 2
\* Calls the host makes in one run of FrameSpec.
MaxFrameCalls == 3
\* Calls the threads start in one run of ConcSpec.
MaxConcCalls == 2
\* Largest numerator and denominator of the angles tried in TrigSpec.
MaxAngleNum == 5
MaxAngleDen == 4
\* Calls the host makes in one run of TripSpec.
MaxTripCalls == 5

(***************************************************************************)
(* u32 arithmetic.                                                         *)
(***************************************************************************)
B16 == 2^16

\* The u32 holding the natural number n (n below 2^31).
ToU32(n) == <<n \div B16, n % B16>>

u32_sub(a, b) ==
    LET lo == a[2] - b[2]
        hi == a[1] - b[1] - (IF lo < 0 THEN 1 ELSE 0)
    IN  [val |-> <<hi % B16, lo % B16>>, ovf |-> hi < 0]

\* The 32-bit product of two 16-bit limbs, as <<hi, lo>>.
Mul16(x, y) ==
    LET t0 == x * (y % 256)
        t1 == x * (y \div 256)
        s  == t0 + (t1 % 256) * 256
    IN  <<(s \div B16) + (t1 \div 256), s % B16>>

u32_mul(a, b) ==
    LET X  == Mul16(a[1], b[2])
        Y  == Mul16(a[2], b[1])
        Z  == Mul16(a[2], b[2])
        hi == Z[1] + X[2] + Y[2]
    IN  [val |-> <<hi % B16, Z[2]>>,
         ovf |-> (a[1] # 0 /\ b[1] # 0) \/ X[1] # 0 \/ Y[1] # 0 \/ hi >= B16]

\* index < len, for an index below 2^31 and a u32 length.
BelowLen(index, len) ==
    LET i == ToU32(index)
    IN  i[1] < len[1] \/ (i[1] = len[1] /\ i[2] < len[2])

(***************************************************************************)
(* f32 arithmetic.                                                         *)
(***************************************************************************)
RECURSIVE GCD(_, _)
GCD(a, b) == IF b = 0 THEN a ELSE GCD(b, a % b)

Abs(n) == IF n < 0 THEN -n ELSE n
Sgn(n) == IF n < 0 THEN -1 ELSE IF n > 0 THEN 1 ELSE 0

\* The f32 n/d, d # 0.
Frac(n, d) ==
    LET g == GCD(Abs(n), Abs(d))
    IN  <<Sgn(d) * (n \div g), Abs(d) \div g>>

NaN == <<0, 0>>
Zero == <<0, 1>>
One == <<1, 1>>

IsFinite(a) == a[2] # 0

FNeg(a) == <<-a[1], a[2]>>

FMul(a, b) ==
    IF a[2] = 0 \/ b[2] = 0
    THEN <<Sgn(a[1]) * Sgn(b[1]), 0>>
    ELSE Frac(a[1] * b[1], a[2] * b[2])

FAdd(a, b) ==
    IF a[2] = 0 /\ b[2] = 0 THEN (IF a = b THEN a ELSE NaN)
    ELSE IF a[2] = 0 THEN a
    ELSE IF b[2] = 0 THEN b
    ELSE LET g == GCD(a[2], b[2])
             l == (a[2] \div g) * b[2]
         IN  Frac(a[1] * (l \div a[2]) + b[1] * (l \div b[2]), l)

FSub(a, b) == FAdd(a, FNeg(b))

FDiv(a, b) ==
    IF a = NaN \/ b = NaN THEN NaN
    ELSE IF a[2] = 0 THEN (IF b[2] = 0 THEN NaN
                           ELSE <<a[1] * (IF b[1] < 0 THEN -1 ELSE 1), 0>>)
    ELSE IF b[2] = 0 THEN Zero
    ELSE IF b[1] = 0 THEN <<Sgn(a[1]), 0>>
    ELSE Frac(a[1] * b[2], a[2] * b[1])

\* `n as f32`, n a natural number.
AsF32(n) == <<n, 1>>

(***************************************************************************)
(* Program constants (lib.rs, generate_mesh.rs, set_rotation_angle.rs).    *)
(***************************************************************************)
MAX_WIDTH == 512
MAX_HEIGHT == 512
MAX_LENGTH == MAX_HEIGHT * MAX_WIDTH
MESH_SIZE == 3 * MAX_LENGTH
INDEX_SIZE == 2 * (2 * MAX_LENGTH - MAX_WIDTH - MAX_HEIGHT)

PARABOLOID_WIDTH == <<2, 1>>
PARABOLOID_HEIGHT == <<2, 1>>
PARABOLOID_X_START == <<-1, 1>>
PARABOLOID_Y_START == <<-1, 1>>
HEIGH_SHIFT == <<-2, 1>>

\* The literals 4.16666667E-02 and -1.66666667E-01 are the f32 nearest
\* 1/24 and -1/6; with rounding not modelled they are 1/24 and -1/6.
C0 == <<1, 1>>
C1 == <<-1, 2>>
C2 == <<1, 24>>
S0 == <<1, 1>>
S1 == <<-1, 6>>


(***************************************************************************)
(* Host inputs and the modelled window of the process buffers.             *)
(***************************************************************************)
\* Grid dimensions within the caps, and those the mesh is meant for
\* (a zero dimension makes both generators write nothing).
InCapDims == 0..MaxPts
GridDims == 1..MaxPts

\* Dimensions beyond a cap.  With 2^16 in both places the 32-bit length
\* computations of the generators exceed 2^32; with a zero beside an
\* oversized dimension their subtractions go below zero.
OversizedArgs ==
    { <<MAX_WIDTH + 1, 2>>, <<2, MAX_HEIGHT + 1>>,
      <<MAX_WIDTH + 1, MAX_HEIGHT + 1>>, <<MAX_WIDTH + 1, 0>>,
      <<2^16, 2>>, <<2^16, 2^16>> }

\* The arguments (nx_pts, ny_pts) the host passes to the generators.
GridArgs == (InCapDims \X InCapDims) \cup OversizedArgs

\* Point counts passed to rotate_mesh: the buffer holds 3 * n_pts floats
\* (precondition of rotate_mesh).
PointCounts == (0..MaxPts) \cup {MaxPts * MaxPts}

\* Angles passed to set_rotation_angle.
Angles == {Zero, One, FNeg(One)}

\* Angles n/d passed to set_rotation_angle when its values are examined.
TrigAngles ==
    {Frac(n, d) : n \in (-MaxAngleNum)..MaxAngleNum, d \in 1..MaxAngleDen}

\* Angles the host turns the mesh by, and back, in TripSpec.
TripAngles == {Zero, One, FNeg(One), <<1, 2>>, <<-1, 2>>}

\* The first MeshCap floats of MESH_BUFFER and the first IndexCap entries
\* of INDEX_BUFFER are kept in the state; the rest is never reached with
\* dimensions within InCapDims.  Offsets are 0-based, as in the code.
MeshCap == 3 * MaxPts * MaxPts
IndexCap == 2 * (2 * MaxPts * MaxPts - MaxPts - MaxPts)

Store(buf, off, val) == [buf EXCEPT ![off + 1] = val]
Load(buf, off) == buf[off + 1]

(***************************************************************************)
(* Loops over the grid: rows outer, columns inner.                         *)
(***************************************************************************)
\* for y_index in 0..ny_pts { for x_index in 0..nx_pts { .. } }
FirstPos == [y |-> 0, x |-> 0]
LoopDone(nx_pts, ny_pts, pos) == nx_pts = 0 \/ pos.y >= ny_pts
NextPos(nx_pts, pos) ==
    IF pos.x + 1 < nx_pts THEN [y |-> pos.y, x |-> pos.x + 1]
                          ELSE [y |-> pos.y + 1, x |-> 0]

(***************************************************************************)
(* generate_mesh.rs                                                        *)
(***************************************************************************)
\* let len: usize = (3 * nx_pts * ny_pts) as usize;
mesh_len(nx_pts, ny_pts) ==
    LET a == u32_mul(ToU32(3), ToU32(nx_pts))
        b == u32_mul(a.val, ToU32(ny_pts))
    IN  [val |-> b.val, ovf |-> a.ovf \/ b.ovf]

\* Whether the arithmetic before the guard overflows: the length, and
\* nx_pts - 1, ny_pts - 1 of the step sizes.
mesh_overflows(nx_pts, ny_pts) ==
    \/ mesh_len(nx_pts, ny_pts).ovf
    \/ u32_sub(ToU32(nx_pts), ToU32(1)).ovf
    \/ u32_sub(ToU32(ny_pts), ToU32(1)).ovf

\* The step sizes are read only inside the loops, where nx_pts >= 1 and
\* ny_pts >= 1, so the wrapped differences are never converted.
mesh_dx(nx_pts) == FDiv(PARABOLOID_WIDTH, AsF32(nx_pts - 1))
mesh_dy(ny_pts) == FDiv(PARABOLOID_HEIGHT, AsF32(ny_pts - 1))

\* mesh_point with the step sizes WIDTH / nx_pts and HEIGHT / ny_pts.
mesh_point_wide_step(nx_pts, ny_pts, x_index, y_index) ==
    LET y_pt == FAdd(PARABOLOID_Y_START,
                     FMul(AsF32(y_index), FDiv(PARABOLOID_HEIGHT, AsF32(ny_pts))))
        x_pt == FAdd(PARABOLOID_X_START,
                     FMul(AsF32(x_index), FDiv(PARABOLOID_WIDTH, AsF32(nx_pts))))
        z_pt == FAdd(FAdd(FMul(x_pt, x_pt), FMul(FMul(<<2, 1>>, y_pt), y_pt)),
                     HEIGH_SHIFT)
    IN  <<x_pt, y_pt, z_pt>>

\* The point computed by the loop body at (x_index, y_index).
mesh_point(nx_pts, ny_pts, x_index, y_index) ==
    LET y_pt == FAdd(PARABOLOID_Y_START, FMul(AsF32(y_index), mesh_dy(ny_pts)))
        x_pt == FAdd(PARABOLOID_X_START, FMul(AsF32(x_index), mesh_dx(nx_pts)))
        z_pt == FAdd(FAdd(FMul(x_pt, x_pt), FMul(FMul(<<2, 1>>, y_pt), y_pt)),
                     HEIGH_SHIFT)
    IN  <<x_pt, y_pt, z_pt>>

\* mesh_body with the z store one entry too far.
mesh_body_z_off(nx_pts, ny_pts, pos, index) ==
    LET p == mesh_point(nx_pts, ny_pts, pos.x, pos.y)
    IN  << [off |-> index, val |-> p[1]],
           [off |-> index + 1, val |-> p[2]],
           [off |-> index + 3, val |-> p[3]] >>

\* The stores of one pass of the inner loop body, in order, with the
\* write cursor before the pass.
mesh_body(nx_pts, ny_pts, pos, index) ==
    LET p == mesh_point(nx_pts, ny_pts, pos.x, pos.y)
    IN  << [off |-> index, val |-> p[1]],
           [off |-> index + 1, val |-> p[2]],
           [off |-> index + 2, val |-> p[3]] >>

\* The stores of the two loops from position pos on.
RECURSIVE mesh_loop(_, _, _, _)
mesh_loop(nx_pts, ny_pts, pos, index) ==
    IF LoopDone(nx_pts, ny_pts, pos) THEN << >>
    ELSE mesh_body(nx_pts, ny_pts, pos, index)
            \o mesh_loop(nx_pts, ny_pts, NextPos(nx_pts, pos), index + 3)

(***************************************************************************)
(* generate_indices.rs                                                     *)
(***************************************************************************)
\* index_len without the subtraction of nx_pts and ny_pts.
index_len_no_sub(nx_pts, ny_pts) ==
    LET n == u32_mul(ToU32(nx_pts), ToU32(ny_pts))
        a == u32_mul(ToU32(2), n.val)
        d == u32_mul(ToU32(2), a.val)
    IN  [val |-> d.val, ovf |-> n.ovf \/ a.ovf \/ d.ovf]

\* let number_of_points: u32 = nx_pts * ny_pts;
\* let len = (2 * (2 * number_of_points - nx_pts - ny_pts)) as usize;
index_len(nx_pts, ny_pts) ==
    LET n == u32_mul(ToU32(nx_pts), ToU32(ny_pts))
        a == u32_mul(ToU32(2), n.val)
        b == u32_sub(a.val, ToU32(nx_pts))
        c == u32_sub(b.val, ToU32(ny_pts))
        d == u32_mul(ToU32(2), c.val)
    IN  [val |-> d.val, ovf |-> n.ovf \/ a.ovf \/ b.ovf \/ c.ovf \/ d.ovf]

\* index_body with the vertical edge also emitted for the last row.
index_body_no_top_check(nx_pts, ny_pts, pos, index) ==
    LET index00 == pos.y * nx_pts + pos.x
        up      == << [off |-> index, val |-> index00],
                      [off |-> index + 1, val |-> index00 + nx_pts] >>
        right   == IF pos.x # nx_pts - 1
                   THEN << [off |-> index + 2, val |-> index00],
                           [off |-> index + 3, val |-> index00 + 1] >>
                   ELSE << >>
    IN  up \o right

\* index_body with the horizontal edge written before the vertical one.
index_body_right_first(nx_pts, ny_pts, pos, index) ==
    LET index00 == pos.y * nx_pts + pos.x
        right   == IF pos.x # nx_pts - 1
                   THEN << [off |-> index, val |-> index00],
                           [off |-> index + 1, val |-> index00 + 1] >>
                   ELSE << >>
        index2  == index + Len(right)
        up      == IF pos.y # ny_pts - 1
                   THEN << [off |-> index2, val |-> index00],
                           [off |-> index2 + 1, val |-> index00 + nx_pts] >>
                   ELSE << >>
    IN  right \o up

\* The stores of one pass of the inner loop body, in order.
index_body(nx_pts, ny_pts, pos, index) ==
    LET shift   == pos.y * nx_pts
        index00 == shift + pos.x
        index01 == index00 + 1
        index10 == index00 + nx_pts
        up      == IF pos.y # ny_pts - 1
                   THEN << [off |-> index, val |-> index00],
                           [off |-> index + 1, val |-> index10] >>
                   ELSE << >>
        index2  == index + Len(up)
        right   == IF pos.x # nx_pts - 1
                   THEN << [off |-> index2, val |-> index00],
                           [off |-> index2 + 1, val |-> index01] >>
                   ELSE << >>
    IN  up \o right

RECURSIVE index_loop(_, _, _, _)
index_loop(nx_pts, ny_pts, pos, index) ==
    IF LoopDone(nx_pts, ny_pts, pos) THEN << >>
    ELSE LET w == index_body(nx_pts, ny_pts, pos, index)
         IN  w \o index_loop(nx_pts, ny_pts, NextPos(nx_pts, pos), index + Len(w))

(***************************************************************************)
(* Stores through the slice arr of length len: arr[index] = value panics   *)
(* when index >= len.                                                      *)
(***************************************************************************)
\* How many of the stores happen before the first one out of bounds.
RECURSIVE StoresDone(_, _, _)
StoresDone(stores, len, k) ==
    IF k > Len(stores) THEN Len(stores)
    ELSE IF BelowLen(stores[k].off, len) THEN StoresDone(stores, len, k + 1)
    ELSE k - 1

RECURSIVE ApplyStores(_, _, _)
ApplyStores(buf, stores, k) ==
    IF k = 0 THEN buf
    ELSE Store(ApplyStores(buf, stores, k - 1), stores[k].off, stores[k].val)

\* The effect of a generator that has passed its guard: the buffer after
\* it, the stores made, and whether a store panicked.
StoresEffect(buf, stores, k) ==
    [buf |-> ApplyStores(buf, stores, k),
     writes |-> SubSeq(stores, 1, k),
     outcome |-> IF k < Len(stores) THEN "panic" ELSE "ok"]

RunStores(buf, stores, len) ==
    StoresEffect(buf, stores, StoresDone(stores, len, 1))

NoEffect(buf, outcome) == [buf |-> buf, writes |-> << >>, outcome |-> outcome]

\* generate_mesh(ptr, nx_pts, ny_pts), ptr the mesh buffer; chk: the build
\* has overflow checks (they panic) or not (the arithmetic wraps).
generate_mesh(buf, nx_pts, ny_pts, chk) ==
    IF chk /\ mesh_overflows(nx_pts, ny_pts) THEN NoEffect(buf, "panic")
    ELSE IF nx_pts > MAX_WIDTH \/ ny_pts > MAX_HEIGHT THEN NoEffect(buf, "ok")
    ELSE RunStores(buf, mesh_loop(nx_pts, ny_pts, FirstPos, 0),
                   mesh_len(nx_pts, ny_pts).val)

\* generate_indices(ptr, nx_pts, ny_pts), ptr the index buffer.
generate_indices(buf, nx_pts, ny_pts, chk) ==
    IF chk /\ index_len(nx_pts, ny_pts).ovf THEN NoEffect(buf, "panic")
    ELSE IF nx_pts > MAX_WIDTH \/ ny_pts > MAX_HEIGHT THEN NoEffect(buf, "ok")
    ELSE RunStores(buf, index_loop(nx_pts, ny_pts, FirstPos, 0),
                   index_len(nx_pts, ny_pts).val)

(***************************************************************************)
(* set_rotation_angle.rs                                                   *)
(***************************************************************************)
\* small_angle_cos with the inner product by zsq left out.
small_angle_cos_flat(zsq) == FAdd(C0, FMul(zsq, FAdd(C1, C2)))

small_angle_cos(zsq) == FAdd(C0, FMul(zsq, FAdd(C1, FMul(zsq, C2))))

\* small_angle_sin with the leading factor zsq in place of z.
small_angle_sin_even(z, zsq) == FMul(zsq, FAdd(S0, FMul(zsq, S1)))

small_angle_sin(z, zsq) == FMul(z, FAdd(S0, FMul(zsq, S1)))

\* rotation_triple with the polynomials evaluated at the angle, not at
\* its square.
rotation_triple_unsquared(angle) ==
    <<angle, small_angle_cos(angle), small_angle_sin(angle, angle)>>

\* The three values set_rotation_angle stores: angle, cos, sin.
rotation_triple(angle) ==
    LET angle_squared == FMul(angle, angle)
    IN  <<angle, small_angle_cos(angle_squared),
          small_angle_sin(angle, angle_squared)>>

(***************************************************************************)
(* rotate_mesh.rs                                                          *)
(***************************************************************************)
\* let n_elements = (3 * n_pts) as usize;
rotate_len(n_pts) == u32_mul(ToU32(3), ToU32(n_pts))

\* rotate_body with y' computed from the x already stored.
rotate_body_updated_x(buf, index, cos_angle, sin_angle) ==
    LET x_index == 3 * index
        y_index == x_index + 1
        x == Load(buf, x_index)
        y == Load(buf, y_index)
        x_new == FSub(FMul(cos_angle, x), FMul(sin_angle, y))
    IN  << [off |-> x_index, val |-> x_new],
           [off |-> y_index,
            val |-> FAdd(FMul(cos_angle, y), FMul(sin_angle, x_new))] >>

\* rotate_body with the cosine and the sine exchanged.
rotate_body_swapped(buf, index, cos_angle, sin_angle) ==
    LET x_index == 3 * index
        y_index == x_index + 1
        x == Load(buf, x_index)
        y == Load(buf, y_index)
    IN  << [off |-> x_index,
            val |-> FSub(FMul(sin_angle, x), FMul(cos_angle, y))],
           [off |-> y_index,
            val |-> FAdd(FMul(sin_angle, y), FMul(cos_angle, x))] >>

\* The two stores of one pass of the loop body; x and y are both read
\* before either store.
rotate_body(buf, index, cos_angle, sin_angle) ==
    LET x_index == 3 * index
        y_index == x_index + 1
        x == Load(buf, x_index)
        y == Load(buf, y_index)
    IN  << [off |-> x_index,
            val |-> FSub(FMul(cos_angle, x), FMul(sin_angle, y))],
           [off |-> y_index,
            val |-> FAdd(FMul(cos_angle, y), FMul(sin_angle, x))] >>

\* The loop from index on: the buffer after it and the stores made.
RECURSIVE rotate_loop(_, _, _, _, _)
rotate_loop(buf, index, n_pts, cos_angle, sin_angle) ==
    IF index >= n_pts THEN [buf |-> buf, writes |-> << >>, outcome |-> "ok"]
    ELSE LET w == rotate_body(buf, index, cos_angle, sin_angle)
             r == rotate_loop(ApplyStores(buf, w, 2), index + 1, n_pts,
                              cos_angle, sin_angle)
         IN  [r EXCEPT !.writes = w \o r.writes]

rotate_mesh(buf, n_pts, cos_angle, sin_angle, chk) ==
    IF chk /\ rotate_len(n_pts).ovf THEN NoEffect(buf, "panic")
    ELSE rotate_loop(buf, 0, n_pts, cos_angle, sin_angle)


(***************************************************************************)
(* State.                                                                  *)
(***************************************************************************)
VARIABLES
    overflow_checks,  \* the build panics on integer overflow (else it wraps)
    MESH_BUFFER,      \* lib.rs:46, the first MeshCap floats
    INDEX_BUFFER,     \* lib.rs:47, the first IndexCap entries
    ROTATION_ANGLE,   \* lib.rs:36
    COS_ANGLE,        \* lib.rs:37
    SIN_ANGLE,        \* lib.rs:38
    call,             \* the last call the host completed, with its effect
    budget,           \* calls that may still be started
    lock,             \* per mutex: the thread holding it, 0 when free
    pc,               \* per thread: its position in the call it runs
    frame             \* per thread: the arguments and locals of that call

vars == <<overflow_checks, MESH_BUFFER, INDEX_BUFFER, ROTATION_ANGLE,
          COS_ANGLE, SIN_ANGLE, call, budget, lock, pc, frame>>

Threads == {1, 2}
Mutexes == {"ROTATION_ANGLE", "COS_ANGLE", "SIN_ANGLE",
            "MESH_BUFFER", "INDEX_BUFFER"}

NoCall == [op |-> "none", args |-> << >>, outcome |-> "ok",
           writes |-> << >>, pre |-> << >>, ret |-> ""]
NoFrame == [op |-> "none"]

\* The statics of lib.rs:36-47; the build is fixed for the whole run.
InitStatics ==
    /\ overflow_checks \in BOOLEAN
    /\ MESH_BUFFER = [i \in 1..MeshCap |-> Zero]
    /\ INDEX_BUFFER = [i \in 1..IndexCap |-> 0]
    /\ ROTATION_ANGLE = Zero
    /\ COS_ANGLE = One
    /\ SIN_ANGLE = Zero
    /\ lock = [m \in Mutexes |-> 0]

InitHost ==
    /\ InitStatics
    /\ call = NoCall
    /\ pc = [t \in Threads |-> "idle"]
    /\ frame = [t \in Threads |-> NoFrame]

Init == InitHost /\ budget = MaxCalls

(***************************************************************************)
(* The host calls one operation at a time (lib.rs:56-84).                  *)
(***************************************************************************)
Called(op, args, r, pre, ret) ==
    /\ call' = [op |-> op, args |-> args, outcome |-> r.outcome,
                writes |-> r.writes, pre |-> pre, ret |-> ret]
    /\ budget > 0
    /\ budget' = budget - 1
    /\ UNCHANGED <<overflow_checks, lock, pc, frame>>

GenerateMesh(nx_pts, ny_pts) ==
    /\ budget > 0
    /\ \E r \in {generate_mesh(MESH_BUFFER, nx_pts, ny_pts, overflow_checks)} :
           /\ MESH_BUFFER' = r.buf
           /\ Called("generate_mesh", <<nx_pts, ny_pts>>, r, MESH_BUFFER, "")
           /\ UNCHANGED <<INDEX_BUFFER, ROTATION_ANGLE, COS_ANGLE, SIN_ANGLE>>

GenerateIndices(nx_pts, ny_pts) ==
    /\ budget > 0
    /\ \E r \in {generate_indices(INDEX_BUFFER, nx_pts, ny_pts, overflow_checks)} :
           /\ INDEX_BUFFER' = r.buf
           /\ Called("generate_indices", <<nx_pts, ny_pts>>, r, INDEX_BUFFER, "")
           /\ UNCHANGED <<MESH_BUFFER, ROTATION_ANGLE, COS_ANGLE, SIN_ANGLE>>

RotateMesh(n_pts) ==
    /\ budget > 0
    /\ \E r \in {rotate_mesh(MESH_BUFFER, n_pts, COS_ANGLE, SIN_ANGLE,
                             overflow_checks)} :
           /\ MESH_BUFFER' = r.buf
           /\ Called("rotate_mesh", <<n_pts>>, r, MESH_BUFFER, "")
           /\ UNCHANGED <<INDEX_BUFFER, ROTATION_ANGLE, COS_ANGLE, SIN_ANGLE>>

\* The three guards are taken in the order ROTATION_ANGLE, COS_ANGLE,
\* SIN_ANGLE and dropped on return; no other call is running here.
SetRotationAngle(angle) ==
    /\ budget > 0
    /\ \E v \in {rotation_triple(angle)} :
           /\ \A m \in {"ROTATION_ANGLE", "COS_ANGLE", "SIN_ANGLE"} : lock[m] = 0
           /\ ROTATION_ANGLE' = v[1]
           /\ COS_ANGLE' = v[2]
           /\ SIN_ANGLE' = v[3]
           /\ Called("set_rotation_angle", <<angle>>, NoEffect(<< >>, "ok"),
                     << >>, "")
           /\ UNCHANGED <<MESH_BUFFER, INDEX_BUFFER>>

GetMeshBuffer ==
    /\ Called("get_mesh_buffer", << >>, NoEffect(<< >>, "ok"), << >>,
              "MESH_BUFFER")
    /\ UNCHANGED <<MESH_BUFFER, INDEX_BUFFER, ROTATION_ANGLE, COS_ANGLE,
                   SIN_ANGLE>>

GetIndexBuffer ==
    /\ Called("get_index_buffer", << >>, NoEffect(<< >>, "ok"), << >>,
              "INDEX_BUFFER")
    /\ UNCHANGED <<MESH_BUFFER, INDEX_BUFFER, ROTATION_ANGLE, COS_ANGLE,
                   SIN_ANGLE>>

\* Every operation, with every argument.
Next ==
    \/ \E a \in GridArgs : GenerateMesh(a[1], a[2])
    \/ \E a \in GridArgs : GenerateIndices(a[1], a[2])
    \/ \E n_pts \in PointCounts : RotateMesh(n_pts)
    \/ \E angle \in Angles : SetRotationAngle(angle)
    \/ GetMeshBuffer
    \/ GetIndexBuffer

Spec == Init /\ [][Next]_vars

\* The animation: the host sets the angle, generates the mesh with
\* dimensions within the caps, rotates it and reads its location.
NextFrame ==
    \/ \E nx_pts \in GridDims, ny_pts \in GridDims :
           GenerateMesh(nx_pts, ny_pts)
    \/ \E n_pts \in PointCounts : RotateMesh(n_pts)
    \/ \E angle \in Angles : SetRotationAngle(angle)
    \/ GetMeshBuffer

InitFrame == InitHost /\ budget = MaxFrameCalls

FrameSpec == InitFrame /\ [][NextFrame]_vars

\* The host only sets the angle, with every angle of TrigAngles.
NextTrig == \E angle \in TrigAngles : SetRotationAngle(angle)

TrigSpec == Init /\ [][NextTrig]_vars


(***************************************************************************)
(* Host threads call the operations concurrently.  A thread runs one call  *)
(* at a time, one lock operation or one element access per step.           *)
(***************************************************************************)
ConcGridArgs == {<<2, 1>>, <<2, 2>>}
ConcPointCounts == {1, 2}

Goto(t, label, fr) ==
    /\ pc' = [pc EXCEPT ![t] = label]
    /\ frame' = [frame EXCEPT ![t] = fr]

Return(t) == Goto(t, "idle", NoFrame)

Begin(t) ==
    /\ pc[t] = "idle"
    /\ budget > 0
    /\ budget' = budget - 1

At(t, label) == pc[t] = label /\ UNCHANGED budget

Acquire(t, m) == lock[m] = 0 /\ lock' = [lock EXCEPT ![m] = t]

\* set_rotation_angle.rs:49-63.  The frame holds the argument and the
\* values the call computes from it alone: angle_squared and the two
\* polynomials of lines 61-62, which are stored once the guards are held.
SraCall(t, angle) ==
    /\ Begin(t)
    /\ Goto(t, "sra_lock_rotation",
            [op |-> "set_rotation_angle", angle |-> angle,
             angle_squared |-> FMul(angle, angle),
             cos_val |-> small_angle_cos(FMul(angle, angle)),
             sin_val |-> small_angle_sin(angle, FMul(angle, angle))])
    /\ UNCHANGED <<overflow_checks, MESH_BUFFER, INDEX_BUFFER, ROTATION_ANGLE,
                   COS_ANGLE, SIN_ANGLE, call, lock>>

\* let mut rotation = ROTATION_ANGLE.lock().unwrap();
SraLockRotation(t) ==
    /\ At(t, "sra_lock_rotation")
    /\ Acquire(t, "ROTATION_ANGLE")
    /\ Goto(t, "sra_lock_cos", frame[t])
    /\ UNCHANGED <<overflow_checks, MESH_BUFFER, INDEX_BUFFER, ROTATION_ANGLE,
                   COS_ANGLE, SIN_ANGLE, call>>

\* let mut cos_val = COS_ANGLE.lock().unwrap();
SraLockCos(t) ==
    /\ At(t, "sra_lock_cos")
    /\ Acquire(t, "COS_ANGLE")
    /\ Goto(t, "sra_lock_sin", frame[t])
    /\ UNCHANGED <<overflow_checks, MESH_BUFFER, INDEX_BUFFER, ROTATION_ANGLE,
                   COS_ANGLE, SIN_ANGLE, call>>

\* let mut sin_val = SIN_ANGLE.lock().unwrap();
SraLockSin(t) ==
    /\ At(t, "sra_lock_sin")
    /\ Acquire(t, "SIN_ANGLE")
    /\ Goto(t, "sra_store_rotation", frame[t])
    /\ UNCHANGED <<overflow_checks, MESH_BUFFER, INDEX_BUFFER, ROTATION_ANGLE,
                   COS_ANGLE, SIN_ANGLE, call>>

\* *rotation = angle;
SraStoreRotation(t) ==
    /\ At(t, "sra_store_rotation")
    /\ ROTATION_ANGLE' = frame[t].angle
    /\ Goto(t, "sra_store_cos", frame[t])
    /\ UNCHANGED <<overflow_checks, MESH_BUFFER, INDEX_BUFFER, COS_ANGLE,
                   SIN_ANGLE, call, lock>>

\* *cos_val = small_angle_cos(angle_squared);
SraStoreCos(t) ==
    /\ At(t, "sra_store_cos")
    /\ COS_ANGLE' = frame[t].cos_val
    /\ Goto(t, "sra_store_sin", frame[t])
    /\ UNCHANGED <<overflow_checks, MESH_BUFFER, INDEX_BUFFER, ROTATION_ANGLE,
                   SIN_ANGLE, call, lock>>

\* SraStoreSin returning with the three guards still held.
SraStoreSin_keep_guards(t) ==
    /\ At(t, "sra_store_sin")
    /\ SIN_ANGLE' = frame[t].sin_val
    /\ Return(t)
    /\ UNCHANGED <<overflow_checks, MESH_BUFFER, INDEX_BUFFER, ROTATION_ANGLE,
                   COS_ANGLE, call, lock>>

\* *sin_val = small_angle_sin(angle, angle_squared); and the three guards
\* are dropped on return.
SraStoreSin(t) ==
    /\ At(t, "sra_store_sin")
    /\ SIN_ANGLE' = frame[t].sin_val
    /\ lock' = [m \in Mutexes |-> IF lock[m] = t THEN 0 ELSE lock[m]]
    /\ Return(t)
    /\ UNCHANGED <<overflow_checks, MESH_BUFFER, INDEX_BUFFER, ROTATION_ANGLE,
                   COS_ANGLE, call>>

\* rotate_mesh.rs:28-32; with overflow checks 3 * n_pts may panic.
RmCall(t, n_pts) ==
    /\ Begin(t)
    /\ IF overflow_checks /\ rotate_len(n_pts).ovf
       THEN Return(t)
       ELSE Goto(t, "rm_lock_cos",
                 [op |-> "rotate_mesh", n_pts |-> n_pts, index |-> 0,
                  cos_angle |-> Zero, sin_angle |-> Zero,
                  x |-> Zero, y |-> Zero])
    /\ UNCHANGED <<overflow_checks, MESH_BUFFER, INDEX_BUFFER, ROTATION_ANGLE,
                   COS_ANGLE, SIN_ANGLE, call, lock>>

\* COS_ANGLE.lock().unwrap()
RmLockCos(t) ==
    /\ At(t, "rm_lock_cos")
    /\ Acquire(t, "COS_ANGLE")
    /\ Goto(t, "rm_read_cos", frame[t])
    /\ UNCHANGED <<overflow_checks, MESH_BUFFER, INDEX_BUFFER, ROTATION_ANGLE,
                   COS_ANGLE, SIN_ANGLE, call>>

\* let cos_angle: f32 = *guard; the guard is dropped with the statement.
RmReadCos(t) ==
    /\ At(t, "rm_read_cos")
    /\ lock' = [lock EXCEPT !["COS_ANGLE"] = 0]
    /\ Goto(t, "rm_lock_sin", [frame[t] EXCEPT !.cos_angle = COS_ANGLE])
    /\ UNCHANGED <<overflow_checks, MESH_BUFFER, INDEX_BUFFER, ROTATION_ANGLE,
                   COS_ANGLE, SIN_ANGLE, call>>

\* SIN_ANGLE.lock().unwrap()
RmLockSin(t) ==
    /\ At(t, "rm_lock_sin")
    /\ Acquire(t, "SIN_ANGLE")
    /\ Goto(t, "rm_read_sin", frame[t])
    /\ UNCHANGED <<overflow_checks, MESH_BUFFER, INDEX_BUFFER, ROTATION_ANGLE,
                   COS_ANGLE, SIN_ANGLE, call>>

\* let sin_angle: f32 = *guard; then the loop begins, or the call returns
\* when n_pts = 0.
RmReadSin(t) ==
    /\ At(t, "rm_read_sin")
    /\ lock' = [lock EXCEPT !["SIN_ANGLE"] = 0]
    /\ IF frame[t].n_pts = 0
       THEN Return(t)
       ELSE Goto(t, "rm_load_x", [frame[t] EXCEPT !.sin_angle = SIN_ANGLE])
    /\ UNCHANGED <<overflow_checks, MESH_BUFFER, INDEX_BUFFER, ROTATION_ANGLE,
                   COS_ANGLE, SIN_ANGLE, call>>

\* let x: f32 = arr[x_index];
RmLoadX(t) ==
    /\ At(t, "rm_load_x")
    /\ Goto(t, "rm_load_y",
            [frame[t] EXCEPT !.x = Load(MESH_BUFFER, 3 * frame[t].index)])
    /\ UNCHANGED <<overflow_checks, MESH_BUFFER, INDEX_BUFFER, ROTATION_ANGLE,
                   COS_ANGLE, SIN_ANGLE, call, lock>>

\* let y: f32 = arr[y_index];
RmLoadY(t) ==
    /\ At(t, "rm_load_y")
    /\ Goto(t, "rm_store_x",
            [frame[t] EXCEPT !.y = Load(MESH_BUFFER, 3 * frame[t].index + 1)])
    /\ UNCHANGED <<overflow_checks, MESH_BUFFER, INDEX_BUFFER, ROTATION_ANGLE,
                   COS_ANGLE, SIN_ANGLE, call, lock>>

\* arr[x_index] = cos_angle * x - sin_angle * y;
RmStoreX(t) ==
    /\ At(t, "rm_store_x")
    /\ MESH_BUFFER' =
          Store(MESH_BUFFER, 3 * frame[t].index,
                FSub(FMul(frame[t].cos_angle, frame[t].x),
                     FMul(frame[t].sin_angle, frame[t].y)))
    /\ Goto(t, "rm_store_y", frame[t])
    /\ UNCHANGED <<overflow_checks, INDEX_BUFFER, ROTATION_ANGLE, COS_ANGLE,
                   SIN_ANGLE, call, lock>>

\* arr[y_index] = cos_angle * y + sin_angle * x; then the next point, or
\* the call returns.
RmStoreY(t) ==
    /\ At(t, "rm_store_y")
    /\ MESH_BUFFER' =
          Store(MESH_BUFFER, 3 * frame[t].index + 1,
                FAdd(FMul(frame[t].cos_angle, frame[t].y),
                     FMul(frame[t].sin_angle, frame[t].x)))
    /\ IF frame[t].index + 1 >= frame[t].n_pts
       THEN Return(t)
       ELSE Goto(t, "rm_load_x", [frame[t] EXCEPT !.index = @ + 1])
    /\ UNCHANGED <<overflow_checks, INDEX_BUFFER, ROTATION_ANGLE, COS_ANGLE,
                   SIN_ANGLE, call, lock>>

\* A generator up to its loops: it panics, returns at the guard, has
\* nothing to store, or enters its loops with the stores they will make.
EnterStores(t, op, label, nx_pts, ny_pts, overflows, stores, len) ==
    IF (overflow_checks /\ overflows)
          \/ nx_pts > MAX_WIDTH \/ ny_pts > MAX_HEIGHT \/ stores = << >>
    THEN Return(t)
    ELSE Goto(t, label, [op |-> op, stores |-> stores, len |-> len, k |-> 1])

\* generate_mesh.rs:34-57
GmCall(t, nx_pts, ny_pts) ==
    /\ Begin(t)
    /\ EnterStores(t, "generate_mesh", "gm_store", nx_pts, ny_pts,
                   mesh_overflows(nx_pts, ny_pts),
                   mesh_loop(nx_pts, ny_pts, FirstPos, 0),
                   mesh_len(nx_pts, ny_pts).val)
    /\ UNCHANGED <<overflow_checks, MESH_BUFFER, INDEX_BUFFER, ROTATION_ANGLE,
                   COS_ANGLE, SIN_ANGLE, call, lock>>

\* generate_indices.rs:28-53
GiCall(t, nx_pts, ny_pts) ==
    /\ Begin(t)
    /\ EnterStores(t, "generate_indices", "gi_store", nx_pts, ny_pts,
                   index_len(nx_pts, ny_pts).ovf,
                   index_loop(nx_pts, ny_pts, FirstPos, 0),
                   index_len(nx_pts, ny_pts).val)
    /\ UNCHANGED <<overflow_checks, MESH_BUFFER, INDEX_BUFFER, ROTATION_ANGLE,
                   COS_ANGLE, SIN_ANGLE, call, lock>>

\* The next store of a generator: arr[index] = value, which panics when
\* index is not below the slice length; after the last store the call
\* returns.
NextStore(t, buf) ==
    LET fr == frame[t]
        w  == fr.stores[fr.k]
    IN  IF ~BelowLen(w.off, fr.len)
        THEN [buf |-> buf, done |-> TRUE]
        ELSE [buf |-> Store(buf, w.off, w.val), done |-> fr.k = Len(fr.stores)]

\* generate_mesh.rs:80-82
GmStore(t) ==
    /\ At(t, "gm_store")
    /\ \E r \in {NextStore(t, MESH_BUFFER)} :
          /\ MESH_BUFFER' = r.buf
          /\ IF r.done THEN Return(t)
             ELSE Goto(t, "gm_store", [frame[t] EXCEPT !.k = @ + 1])
    /\ UNCHANGED <<overflow_checks, INDEX_BUFFER, ROTATION_ANGLE, COS_ANGLE,
                   SIN_ANGLE, call, lock>>

\* generate_indices.rs:86-87, 95-96
GiStore(t) ==
    /\ At(t, "gi_store")
    /\ \E r \in {NextStore(t, INDEX_BUFFER)} :
          /\ INDEX_BUFFER' = r.buf
          /\ IF r.done THEN Return(t)
             ELSE Goto(t, "gi_store", [frame[t] EXCEPT !.k = @ + 1])
    /\ UNCHANGED <<overflow_checks, MESH_BUFFER, ROTATION_ANGLE, COS_ANGLE,
                   SIN_ANGLE, call, lock>>

NextConc ==
    \/ \E t \in Threads, angle \in Angles : SraCall(t, angle)
    \/ \E t \in Threads : SraLockRotation(t)
    \/ \E t \in Threads : SraLockCos(t)
    \/ \E t \in Threads : SraLockSin(t)
    \/ \E t \in Threads : SraStoreRotation(t)
    \/ \E t \in Threads : SraStoreCos(t)
    \/ \E t \in Threads : SraStoreSin(t)
    \/ \E t \in Threads, n_pts \in ConcPointCounts : RmCall(t, n_pts)
    \/ \E t \in Threads : RmLockCos(t)
    \/ \E t \in Threads : RmReadCos(t)
    \/ \E t \in Threads : RmLockSin(t)
    \/ \E t \in Threads : RmReadSin(t)
    \/ \E t \in Threads : RmLoadX(t)
    \/ \E t \in Threads : RmLoadY(t)
    \/ \E t \in Threads : RmStoreX(t)
    \/ \E t \in Threads : RmStoreY(t)
    \/ \E t \in Threads, a \in ConcGridArgs : GmCall(t, a[1], a[2])
    \/ \E t \in Threads : GmStore(t)
    \/ \E t \in Threads, a \in ConcGridArgs : GiCall(t, a[1], a[2])
    \/ \E t \in Threads : GiStore(t)

InitConc == InitHost /\ budget = MaxConcCalls

ConcSpec == InitConc /\ [][NextConc]_vars

\* The threads call set_rotation_angle and rotate_mesh only.  A thread
\* that has started a call is scheduled again and again: its next step is
\* taken if it stays possible (a lock() waits while the mutex is held).
ThreadStep(t) ==
    \/ SraLockRotation(t) \/ SraLockCos(t) \/ SraLockSin(t)
    \/ SraStoreRotation(t) \/ SraStoreCos(t) \/ SraStoreSin(t)
    \/ RmLockCos(t) \/ RmReadCos(t) \/ RmLockSin(t) \/ RmReadSin(t)
    \/ RmLoadX(t) \/ RmLoadY(t) \/ RmStoreX(t) \/ RmStoreY(t)

\* The locking does not depend on the angle: one angle is passed.
LockAngles == {One}

NextLock ==
    \/ \E t \in Threads, angle \in LockAngles : SraCall(t, angle)
    \/ \E t \in Threads : SraLockRotation(t)
    \/ \E t \in Threads : SraLockCos(t)
    \/ \E t \in Threads : SraLockSin(t)
    \/ \E t \in Threads : SraStoreRotation(t)
    \/ \E t \in Threads : SraStoreCos(t)
    \/ \E t \in Threads : SraStoreSin(t)
    \/ \E t \in Threads, n_pts \in ConcPointCounts : RmCall(t, n_pts)
    \/ \E t \in Threads : RmLockCos(t)
    \/ \E t \in Threads : RmReadCos(t)
    \/ \E t \in Threads : RmLockSin(t)
    \/ \E t \in Threads : RmReadSin(t)
    \/ \E t \in Threads : RmLoadX(t)
    \/ \E t \in Threads : RmLoadY(t)
    \/ \E t \in Threads : RmStoreX(t)
    \/ \E t \in Threads : RmStoreY(t)

LockSpec ==
    /\ InitConc
    /\ [][NextLock]_vars
    /\ \A t \in Threads : WF_vars(ThreadStep(t))

(***************************************************************************)
(* The host turns the mesh and turns it back: generate_mesh, then          *)
(* set_rotation_angle(a), rotate_mesh(n), set_rotation_angle(-a),          *)
(* rotate_mesh(n), one call at a time.  pc[1] is the host's position in    *)
(* this sequence and frame[1] holds what it remembers: the buffer before   *)
(* the first rotation, the angle and the point count.                      *)
(***************************************************************************)
TripCalled(op, args, r, pre, label, fr) ==
    /\ call' = [op |-> op, args |-> args, outcome |-> r.outcome,
                writes |-> r.writes, pre |-> pre, ret |-> ""]
    /\ budget > 0
    /\ budget' = budget - 1
    /\ Goto(1, label, fr)
    /\ UNCHANGED <<overflow_checks, lock>>

TripGenerate(nx_pts, ny_pts) ==
    /\ pc[1] = "idle"
    /\ \E r \in {generate_mesh(MESH_BUFFER, nx_pts, ny_pts, overflow_checks)} :
           /\ MESH_BUFFER' = r.buf
           /\ TripCalled("generate_mesh", <<nx_pts, ny_pts>>, r, MESH_BUFFER,
                         "trip_mesh", [op |-> "round_trip"])
           /\ UNCHANGED <<INDEX_BUFFER, ROTATION_ANGLE, COS_ANGLE, SIN_ANGLE>>

TripSetAngle(angle) ==
    /\ pc[1] \in {"trip_mesh", "trip_back"}
    /\ \E v \in {rotation_triple(angle)} :
           /\ ROTATION_ANGLE' = v[1]
           /\ COS_ANGLE' = v[2]
           /\ SIN_ANGLE' = v[3]
           /\ TripCalled("set_rotation_angle", <<angle>>, NoEffect(<< >>, "ok"),
                         << >>, "trip_turned",
                         [op |-> "round_trip", origin |-> MESH_BUFFER,
                          angle |-> angle])
           /\ UNCHANGED <<MESH_BUFFER, INDEX_BUFFER>>

TripRotate(n_pts) ==
    /\ pc[1] = "trip_turned"
    /\ \E r \in {rotate_mesh(MESH_BUFFER, n_pts, COS_ANGLE, SIN_ANGLE,
                             overflow_checks)} :
           /\ MESH_BUFFER' = r.buf
           /\ TripCalled("rotate_mesh", <<n_pts>>, r, MESH_BUFFER,
                         "trip_rotated",
                         [op |-> "round_trip", origin |-> frame[1].origin,
                          angle |-> frame[1].angle, n_pts |-> n_pts])
    /\ UNCHANGED <<INDEX_BUFFER, ROTATION_ANGLE, COS_ANGLE, SIN_ANGLE>>

TripSetBack ==
    /\ pc[1] = "trip_rotated"
    /\ \E v \in {rotation_triple(FNeg(frame[1].angle))} :
           /\ ROTATION_ANGLE' = v[1]
           /\ COS_ANGLE' = v[2]
           /\ SIN_ANGLE' = v[3]
           /\ TripCalled("set_rotation_angle", <<FNeg(frame[1].angle)>>,
                         NoEffect(<< >>, "ok"), << >>, "trip_turned_back",
                         frame[1])
    /\ UNCHANGED <<MESH_BUFFER, INDEX_BUFFER>>

TripRotateBack ==
    /\ pc[1] = "trip_turned_back"
    /\ \E r \in {rotate_mesh(MESH_BUFFER, frame[1].n_pts, COS_ANGLE,
                             SIN_ANGLE, overflow_checks)} :
           /\ MESH_BUFFER' = r.buf
           /\ TripCalled("rotate_mesh", <<frame[1].n_pts>>, r, MESH_BUFFER,
                         "trip_back", frame[1])
    /\ UNCHANGED <<INDEX_BUFFER, ROTATION_ANGLE, COS_ANGLE, SIN_ANGLE>>

NextTrip ==
    \/ \E nx_pts \in GridDims, ny_pts \in GridDims :
           TripGenerate(nx_pts, ny_pts)
    \/ \E angle \in TripAngles : TripSetAngle(angle)
    \/ \E n_pts \in PointCounts : TripRotate(n_pts)
    \/ TripSetBack
    \/ TripRotateBack

InitTrip == InitHost /\ budget = MaxTripCalls

TripSpec == InitTrip /\ [][NextTrip]_vars

(***************************************************************************)
(* Properties.                                                             *)
(***************************************************************************)
IsCall(op) == call.op = op
InCaps(args) == args[1] <= MAX_WIDTH /\ args[2] <= MAX_HEIGHT
ValidGrid(args) == args[1] >= 2 /\ args[2] >= 2 /\ InCaps(args)

\* How many of the stores of the last call went to offset off.
StoresAt(off) == Cardinality({k \in 1..Len(call.writes) : call.writes[k].off = off})

\* The values the last call stored, in the order it stored them.
StoredValues == [k \in 1..Len(call.writes) |-> call.writes[k].val]

\* The last call stored to consecutive offsets from 0 on.
StoredInOrder == \A k \in 1..Len(call.writes) : call.writes[k].off = k - 1

\* 2 * (2*w*h - w - h)
EdgeEntries(w, h) == 2 * (2 * w * h - w - h)

\* C1: for 2 <= nx_pts <= MAX_WIDTH and 2 <= ny_pts <= MAX_HEIGHT,
\* generate_indices writes exactly 2*(2*nx_pts*ny_pts - nx_pts - ny_pts)
\* entries: it returns normally, its write cursor ends at that number,
\* every offset below it is written exactly once and no other offset is
\* written, and every written value lies in [0, nx_pts*ny_pts).
C1_IndexCount ==
    (IsCall("generate_indices") /\ ValidGrid(call.args)) =>
        LET n == EdgeEntries(call.args[1], call.args[2])
        IN  /\ call.outcome = "ok"
            /\ Len(call.writes) = n
            /\ \A off \in 0..(IndexCap - 1) :
                   StoresAt(off) = (IF off < n THEN 1 ELSE 0)
            /\ \A k \in 1..n : /\ call.writes[k].val >= 0
                               /\ call.writes[k].val < call.args[1] * call.args[2]

C1_Witness ==
    /\ IsCall("generate_indices")
    /\ call.args = <<MaxPts, 2>>
    /\ Len(call.writes) = EdgeEntries(MaxPts, 2)
    /\ call.pre # INDEX_BUFFER

\* The pairs the grid points id, id + 1, .., w*h - 1 emit, in that order:
\* (id, id + w) unless the point is in the last row, then (id, id + 1)
\* unless it is in the last column.
RECURSIVE EdgesFrom(_, _, _)
EdgesFrom(id, w, h) ==
    IF id >= w * h THEN << >>
    ELSE LET y == id \div w
             x == id % w
         IN  (IF y # h - 1 THEN <<id, id + w>> ELSE << >>)
                \o (IF x # w - 1 THEN <<id, id + 1>> ELSE << >>)
                \o EdgesFrom(id + 1, w, h)

\* C4: what generate_indices writes, from offset 0 on, is the
\* concatenation over the grid points in row-major order of the pair
\* (id, id + nx_pts) if the point is not in the last row, then the pair
\* (id, id + 1) if it is not in the last column; for nx_pts = 3,
\* ny_pts = 2 it begins (0,3), (0,1) and holds no pair starting at 5.
C4_IndexOrder ==
    (IsCall("generate_indices") /\ InCaps(call.args) /\ call.outcome = "ok") =>
        /\ StoredInOrder
        /\ StoredValues = (IF call.args[1] = 0 THEN << >>
                           ELSE EdgesFrom(0, call.args[1], call.args[2]))
        /\ call.args = <<3, 2>> =>
              /\ SubSeq(StoredValues, 1, 4) = <<0, 3, 0, 1>>
              /\ \A k \in 1..Len(call.writes) :
                     k % 2 = 1 => call.writes[k].val # 5

C4_Witness ==
    /\ IsCall("generate_indices")
    /\ call.args = <<3, 2>>
    /\ StoredValues = <<0, 3, 0, 1, 1, 4, 1, 2, 2, 5, 3, 4, 4, 5>>

\* C3: with nx_pts > MAX_WIDTH or ny_pts > MAX_HEIGHT both generators
\* return normally and leave the destination as it was.
C3_OversizedNoOp ==
    ((IsCall("generate_mesh") \/ IsCall("generate_indices"))
        /\ ~InCaps(call.args)) =>
        /\ call.outcome = "ok"
        /\ call.writes = << >>
        /\ IsCall("generate_mesh") => MESH_BUFFER = call.pre
        /\ IsCall("generate_indices") => INDEX_BUFFER = call.pre

\* C8: within the caps generate_mesh writes each of the first
\* 3*nx_pts*ny_pts entries exactly once and no other entry, and the
\* entries from 3*nx_pts*ny_pts on are as they were before the call.
C8_MeshFrame ==
    (IsCall("generate_mesh") /\ InCaps(call.args)) =>
        LET n == 3 * call.args[1] * call.args[2]
        IN  /\ \A k \in 1..Len(call.writes) : call.writes[k].off < n
            /\ \A off \in 0..(MeshCap - 1) :
                 /\ StoresAt(off) = (IF off < n THEN 1 ELSE 0)
                 /\ off >= n => Load(MESH_BUFFER, off) = Load(call.pre, off)

C8_Witness ==
    /\ IsCall("generate_mesh")
    /\ call.args = <<2, 2>>
    /\ call.outcome = "ok"
    /\ Load(call.pre, 12) # Zero
    /\ Load(MESH_BUFFER, 12) = Load(call.pre, 12)
    /\ Load(MESH_BUFFER, 11) # Load(call.pre, 11)


\* The sample for column i, row j of a w by h grid in exact arithmetic,
\* from PARABOLOID_X_START = PARABOLOID_Y_START = -1, PARABOLOID_WIDTH =
\* PARABOLOID_HEIGHT = 2 and the shift -2:
\*   x = -1 + i * (2 / (w - 1)),  y = -1 + j * (2 / (h - 1)),
\*   z = x^2 + 2 * y^2 - 2.
SampleX(i, w) == Frac(2 * i - (w - 1), w - 1)
SampleY(j, h) == Frac(2 * j - (h - 1), h - 1)
SampleZ(i, j, w, h) ==
    LET a == 2 * i - (w - 1)
        b == 2 * j - (h - 1)
        d == (w - 1) * (w - 1) * (h - 1) * (h - 1)
    IN  Frac(a * a * (h - 1) * (h - 1) + 2 * b * b * (w - 1) * (w - 1) - 2 * d, d)

\* C9: for 2 <= nx_pts <= MAX_WIDTH and 2 <= ny_pts <= MAX_HEIGHT,
\* generate_mesh leaves the sample of column i, row j at the offsets
\* 3*(j*nx_pts + i) .. + 2, as x = X_START + i*(WIDTH/(nx_pts - 1)),
\* y = Y_START + j*(HEIGHT/(ny_pts - 1)), z = x^2 + 2*y^2 + SHIFT; for the
\* 2 by 2 grid the corners are (-1,-1), (1,-1), (-1,1), (1,1) with z = 1.
C9_MeshSamples ==
    (IsCall("generate_mesh") /\ ValidGrid(call.args)) =>
        LET w == call.args[1]
            h == call.args[2]
        IN  /\ call.outcome = "ok"
            /\ \A i \in 0..(w - 1), j \in 0..(h - 1) :
                 LET off == 3 * (j * w + i)
                 IN  /\ Load(MESH_BUFFER, off) = SampleX(i, w)
                     /\ Load(MESH_BUFFER, off + 1) = SampleY(j, h)
                     /\ Load(MESH_BUFFER, off + 2) = SampleZ(i, j, w, h)
            /\ call.args = <<2, 2>> =>
                 SubSeq(MESH_BUFFER, 1, 12) =
                    << <<-1, 1>>, <<-1, 1>>, <<1, 1>>,
                       <<1, 1>>, <<-1, 1>>, <<1, 1>>,
                       <<-1, 1>>, <<1, 1>>, <<1, 1>>,
                       <<1, 1>>, <<1, 1>>, <<1, 1>> >>

C9_Witness ==
    /\ IsCall("generate_mesh")
    /\ call.args = <<MaxPts, 2>>
    /\ Load(MESH_BUFFER, 3 * (MaxPts + 1)) = SampleX(1, MaxPts)
    /\ Load(MESH_BUFFER, 3 * (MaxPts + 1) + 1) = One

\* C7: rotate_mesh replaces each point k < n_pts by
\* x' = cos*x - sin*y and y' = cos*y + sin*x, x and y both the values
\* before the call and cos, sin the cached values, and leaves every z and
\* every entry from offset 3*n_pts on as it was.
C7_RotateFrame ==
    IsCall("rotate_mesh") =>
        LET n_pts == call.args[1]
        IN  /\ call.outcome = "ok"
            /\ \A k \in 0..(MaxPts * MaxPts - 1) :
                 LET x == Load(call.pre, 3 * k)
                     y == Load(call.pre, 3 * k + 1)
                 IN  /\ Load(MESH_BUFFER, 3 * k + 2) = Load(call.pre, 3 * k + 2)
                     /\ k < n_pts =>
                          /\ Load(MESH_BUFFER, 3 * k) =
                                FSub(FMul(COS_ANGLE, x), FMul(SIN_ANGLE, y))
                          /\ Load(MESH_BUFFER, 3 * k + 1) =
                                FAdd(FMul(COS_ANGLE, y), FMul(SIN_ANGLE, x))
                     /\ k >= n_pts =>
                          /\ Load(MESH_BUFFER, 3 * k) = x
                          /\ Load(MESH_BUFFER, 3 * k + 1) = y

\* A rotation by a non-zero angle of two points of a generated mesh that
\* holds more than two.
C7_Witness ==
    /\ IsCall("rotate_mesh")
    /\ call.args = <<2>>
    /\ SIN_ANGLE # Zero
    /\ Load(call.pre, 0) = <<-1, 1>>
    /\ Load(call.pre, 1) = <<-1, 1>>
    /\ Load(MESH_BUFFER, 0) # Load(call.pre, 0)
    /\ Load(MESH_BUFFER, 1) # Load(call.pre, 1)
    /\ Load(MESH_BUFFER, 6) = Load(call.pre, 6)
    /\ Load(call.pre, 6) # Zero

\* The last call was a rotation with the rotation state at angle 0.
RotatedByZero ==
    /\ IsCall("rotate_mesh")
    /\ ROTATION_ANGLE = Zero
    /\ COS_ANGLE = One
    /\ SIN_ANGLE = Zero

\* C10 as stated: with the rotation state at angle 0, rotate_mesh leaves
\* the buffer as it was, whatever it holds.
C10_ZeroIdentityAnyContent == RotatedByZero => MESH_BUFFER = call.pre

\* The x and y of the first n_pts points of buf are finite.
FinitePoints(buf, n_pts) ==
    \A k \in 0..(n_pts - 1) :
        IsFinite(Load(buf, 3 * k)) /\ IsFinite(Load(buf, 3 * k + 1))

\* C10, amended: with the rotation state at angle 0, rotate_mesh leaves a
\* buffer whose rotated x and y entries are all finite as it was.
C10_ZeroIdentityFinite ==
    (RotatedByZero /\ FinitePoints(call.pre, call.args[1])) =>
        MESH_BUFFER = call.pre

C10_Witness ==
    /\ RotatedByZero
    /\ call.args = <<MaxPts>>
    /\ FinitePoints(call.pre, MaxPts)
    /\ Load(call.pre, 0) = <<-1, 1>>
    /\ Load(call.pre, 3) # Zero
    /\ MESH_BUFFER = call.pre

\* cos and sin are the small-angle polynomials of the stored angle.
TripleConsistent ==
    /\ COS_ANGLE = small_angle_cos(FMul(ROTATION_ANGLE, ROTATION_ANGLE))
    /\ SIN_ANGLE = small_angle_sin(ROTATION_ANGLE,
                                   FMul(ROTATION_ANGLE, ROTATION_ANGLE))

\* C5: the rotation state starts as (0, 1, 0); after every completed call
\* cos and sin are the small-angle polynomials of the stored angle; and a
\* call other than set_rotation_angle leaves angle, cos and sin unchanged.
C5_RotationState ==
    /\ ROTATION_ANGLE = Zero /\ COS_ANGLE = One /\ SIN_ANGLE = Zero
    /\ []TripleConsistent
    /\ [][call'.op # "set_rotation_angle" =>
             UNCHANGED <<ROTATION_ANGLE, COS_ANGLE, SIN_ANGLE>>]_vars

C5_Witness ==
    /\ IsCall("rotate_mesh")
    /\ ROTATION_ANGLE = One
    /\ COS_ANGLE = <<13, 24>>
    /\ SIN_ANGLE = <<5, 6>>


\* Thread t is in the loop of rotate_mesh, with both cached values read.
InRotateLoop(t) ==
    pc[t] \in {"rm_load_x", "rm_load_y", "rm_store_x", "rm_store_y"}

\* C2: a rotate_mesh call running beside set_rotation_angle calls uses a
\* cos and a sin computed from the same angle.
C2_ConsistentRead ==
    \A t \in Threads :
        InRotateLoop(t) =>
            \E angle \in Angles :
                /\ frame[t].cos_angle = rotation_triple(angle)[2]
                /\ frame[t].sin_angle = rotation_triple(angle)[3]

\* Thread t has accessed an element of the mesh buffer, or of the index
\* buffer, in the call it runs and has another access of it to make.
MidMeshAccess(t) ==
    \/ pc[t] \in {"rm_load_y", "rm_store_x", "rm_store_y"}
    \/ pc[t] = "rm_load_x" /\ frame[t].index > 0
    \/ pc[t] = "gm_store" /\ frame[t].k > 1
MidIndexAccess(t) == pc[t] = "gi_store" /\ frame[t].k > 1

\* C6: the element accesses of two calls running concurrently on the same
\* buffer do not interleave: no call accesses a buffer between two
\* accesses of another call.
C6_NoInterleaving ==
    \A t1, t2 \in Threads :
        t1 # t2 =>
            /\ ~(MidMeshAccess(t1) /\ MidMeshAccess(t2))
            /\ ~(MidIndexAccess(t1) /\ MidIndexAccess(t2))


\* 1 - a^2/2 + a^4/24 and a - a^3/6, term by term.
TaylorCos(a) ==
    LET a2 == FMul(a, a)
        a4 == FMul(a2, a2)
    IN  FAdd(FSub(One, FDiv(a2, <<2, 1>>)), FDiv(a4, <<24, 1>>))
TaylorSin(a) == FSub(a, FDiv(FMul(FMul(a, a), a), <<6, 1>>))

\* C11: set_rotation_angle(a) stores angle = a, cos = 1 - a^2/2 + a^4/24
\* and sin = a - a^3/6 = a * (1 - a^2/6); for a = 0 it stores cos = 1 and
\* sin = 0.
C11_TaylorValues ==
    IsCall("set_rotation_angle") =>
        LET a == call.args[1]
        IN  /\ ROTATION_ANGLE = a
            /\ COS_ANGLE = TaylorCos(a)
            /\ SIN_ANGLE = TaylorSin(a)
            /\ SIN_ANGLE = FMul(a, FSub(One, FDiv(FMul(a, a), <<6, 1>>)))
            /\ a = Zero => COS_ANGLE = One /\ SIN_ANGLE = Zero

\* set_rotation_angle(1/2) has stored cos = 337/384 and sin = 23/48.
C11_Witness ==
    /\ IsCall("set_rotation_angle")
    /\ call.args = << <<1, 2>> >>
    /\ ROTATION_ANGLE = <<1, 2>>
    /\ COS_ANGLE = <<337, 384>>
    /\ SIN_ANGLE = <<23, 48>>


\* The host has turned the mesh by an angle and back.
TurnedBack == pc[1] = "trip_back"

\* cos^2 + sin^2 of the Taylor values of a, which is 1 - a^6/72 + a^8/576.
TripFactor(a) ==
    FAdd(FMul(TaylorCos(a), TaylorCos(a)), FMul(TaylorSin(a), TaylorSin(a)))

\* After the round trip the x and y of the first n_pts points are those
\* before it multiplied by TripFactor(a), a factor that differs from 1 by
\* a^6/72 - a^8/576; every z and every entry past the points is as before.
RoundTripReturns ==
    LET o == frame[1].origin
        n == frame[1].n_pts
        a == frame[1].angle
        a2 == FMul(a, a)
        a6 == FMul(FMul(a2, a2), a2)
        k == TripFactor(a)
    IN  /\ FSub(One, k) = FSub(FDiv(a6, <<72, 1>>),
                               FDiv(FMul(a6, a2), <<576, 1>>))
        /\ \A off \in 0..(MeshCap - 1) :
               Load(MESH_BUFFER, off) =
                   IF off < 3 * n /\ off % 3 # 2
                   THEN FMul(k, Load(o, off))
                   ELSE Load(o, off)

U32Value(v) == v[1] * B16 + v[2]

\* The last call stored something, only for dimensions within the caps,
\* and every offset it stored to is below the slice length len, which is
\* at most the capacity size of the buffer.
WritesWithin(len, size) ==
    call.writes # << >> =>
        /\ InCaps(call.args)
        /\ U32Value(len) <= size
        /\ \A k \in 1..Len(call.writes) :
               /\ call.writes[k].off < U32Value(len)
               /\ call.writes[k].off < size

\* The slice lengths of every grid with 1 <= nx_pts <= w and
\* 1 <= ny_pts <= h are computed without overflow and are at most the
\* capacities.
LengthsWithinCapacity(w, h) ==
    \A nx_pts \in 1..w, ny_pts \in 1..h :
        /\ ~mesh_len(nx_pts, ny_pts).ovf
        /\ U32Value(mesh_len(nx_pts, ny_pts).val) <= MESH_SIZE
        /\ ~index_len(nx_pts, ny_pts).ovf
        /\ U32Value(index_len(nx_pts, ny_pts).val) <= INDEX_SIZE

\* C13: whatever (nx_pts, ny_pts) is passed, zero, one and oversized
\* values included, every offset generate_mesh writes is below MESH_SIZE
\* and every offset generate_indices writes is below INDEX_SIZE, and each
\* is below the slice length computed at the start of the call.  Only
\* calls with dimensions within the caps write, and the slice length of
\* every grid within the caps is at most the capacity (the lengths do not
\* depend on the state: they are examined once, before the first call).
C13_WritesWithinCapacity ==
    /\ (IsCall("none") /\ ~overflow_checks) =>
           LengthsWithinCapacity(MAX_WIDTH, MAX_HEIGHT)
    /\ IsCall("generate_mesh") =>
           WritesWithin(mesh_len(call.args[1], call.args[2]).val, MESH_SIZE)
    /\ IsCall("generate_indices") =>
           WritesWithin(index_len(call.args[1], call.args[2]).val, INDEX_SIZE)

\* generate_mesh has filled the largest grid of the model, up to the last
\* offset below its slice length.
C13_Witness ==
    /\ IsCall("generate_mesh")
    /\ call.args = <<MaxPts, MaxPts>>
    /\ call.outcome = "ok"
    /\ Len(call.writes) = 3 * MaxPts * MaxPts
    /\ call.writes[Len(call.writes)].off = 3 * MaxPts * MaxPts - 1
    /\ U32Value(mesh_len(MaxPts, MaxPts).val) = 3 * MaxPts * MaxPts


\* The mutexes thread t holds.
HeldBy(t) == {m \in Mutexes : lock[m] = t}

\* The mutexes a call holds at each of its positions: set_rotation_angle
\* takes ROTATION_ANGLE, COS_ANGLE, SIN_ANGLE in this order and keeps them
\* to its return; rotate_mesh holds COS_ANGLE, then SIN_ANGLE, each for one
\* read, and none in its loop; a thread that runs no call holds none.
GuardsAt(label) ==
    CASE label = "sra_lock_cos" -> {"ROTATION_ANGLE"}
      [] label = "sra_lock_sin" -> {"ROTATION_ANGLE", "COS_ANGLE"}
      [] label \in {"sra_store_rotation", "sra_store_cos", "sra_store_sin"} ->
            {"ROTATION_ANGLE", "COS_ANGLE", "SIN_ANGLE"}
      [] label = "rm_read_cos" -> {"COS_ANGLE"}
      [] label = "rm_read_sin" -> {"SIN_ANGLE"}
      [] OTHER -> {}

\* C14: set_rotation_angle acquires ROTATION_ANGLE, then COS_ANGLE, then
\* SIN_ANGLE and holds all three until it returns; rotate_mesh holds at
\* most one of COS_ANGLE and SIN_ANGLE at a time and none in its loop; no
\* mutex is held by a thread whose call has returned; and with fair
\* scheduling every call of set_rotation_angle and rotate_mesh that has
\* started returns, whatever the interleaving.
C14_LockDiscipline ==
    /\ [](\A t \in Threads : HeldBy(t) = GuardsAt(pc[t]))
    /\ \A t \in Threads : (pc[t] # "idle") ~> (pc[t] = "idle")

\* set_rotation_angle holds the three guards while a rotate_mesh that has
\* read the cosine waits for SIN_ANGLE.
C14_Witness ==
    /\ pc[1] = "sra_store_cos"
    /\ HeldBy(1) = {"ROTATION_ANGLE", "COS_ANGLE", "SIN_ANGLE"}
    /\ pc[2] = "rm_lock_sin"
    /\ HeldBy(2) = {}

====
